---- MODULE Spec2Model ----
(***************************************************************************)
(* Model of the NL-to-SQL LangGraph agent: the workflow graph of           *)
(* core/agent.py, the node functions of agents/nodes.py, the tools they    *)
(* call (tools/sql_tools.py, tools/analysis_tools.py,                      *)
(* tools/memory_management.py) and the three callers that run one turn     *)
(* (app/api.py, app/main.py, langgraph_agent_pipe.py).                     *)
(*                                                                         *)
(* Python values are modelled as follows.  None is NULL ("<None>"), a key  *)
(* that is missing from a dict is ABSENT ("<absent>").  Fields that hold   *)
(* lists are sequences of strings; their None / missing values are the     *)
(* one-element sequences NullSeq / AbsentSeq, so that every field is       *)
(* compared with values of its own type.  A SQL text is a sequence of      *)
(* tokens, so that strip(), upper(), replace() and startswith() are        *)
(* computed rather than assumed.                                           *)
(***************************************************************************)
EXTENDS Integers, Sequences, FiniteSets, TLC

VARIABLES
    callerPc,       \* position of the request handler: idle / streaming / responded
    entry,          \* which caller runs the turn: api / main / pipe
    thread_id,      \* config["configurable"]["thread_id"] of the turn
    state,          \* the State Record (AgentState) of the running turn
    pc,             \* the node the executor runs next
    raised,         \* the node whose step raised, or NoNode
    steps,          \* the steps that completed in this turn, in order
    attempts,       \* per completed query_execution step: did it succeed
    last_exec,      \* what execute_sql_query returned in the latest step
    llm_seen,       \* what the turn's collaborators were asked and answered
    checkpoint,     \* the checkpoint store: latest snapshot per thread
    final_state,    \* the caller's accumulator (final_agent_state / final_state)
    sse,            \* the items the streaming endpoint has yielded
    response,       \* the response of the non-streaming callers
    db_sent,        \* the query texts handed to cursor.execute
    db_writes,      \* how many executed texts changed database contents
    memory_store,   \* the writes submitted to the memory collection
    persisted,      \* whether the checkpoint writes the turn submitted have landed
    parked,         \* the request handler that is not running at the moment
    turns,          \* how many turns the server has started
    wide            \* whether the collaborators answer from their full sets

vars == <<callerPc, entry, thread_id, state, pc, raised, steps, attempts,
          last_exec, llm_seen, checkpoint, final_state, sse, response, db_sent,
          db_writes, memory_store, persisted, parked, turns, wide>>

\* what the server keeps besides the running handler and the stores
server == <<parked, turns, wide>>

(***************************************************************************)
(* Bounds                                                                  *)
(***************************************************************************)
\* the model follows a turn through at most this many query_execution steps
MaxExec == 3

\* the model follows the server through at most this many turns
MaxTurns == 2

\* the answers a collaborator gives: all of them in the runs of one turn,
\* a few of each kind in the runs of several turns
Answers(all, few) == IF wide THEN all ELSE few

(***************************************************************************)
(* Python values                                                           *)
(***************************************************************************)
NULL == "<None>"
ABSENT == "<absent>"
NullSeq == <<"<None>">>
AbsentSeq == <<"<absent>">>
NoNode == "<none>"
END == "__end__"

\* dict.get(key): a missing key reads as None
Get(v) == IF v = ABSENT THEN NULL ELSE v
GetSeq(v) == IF v = AbsentSeq THEN NullSeq ELSE v

\* Python truthiness of an Optional[str] and of an Optional[list]
Truthy(v) == v # NULL /\ v # ABSENT /\ v # ""
TruthySeq(v) == v # NullSeq /\ v # AbsentSeq /\ v # <<>>

\* shallow key replacement: the keys of the update overwrite, the rest stay
\* a variant that replaces the record by the update
MergeReplacing(s, u) ==
    [k \in DOMAIN s |-> IF k \in DOMAIN u THEN u[k]
                        ELSE IF k \in {"question", "user_id", "next_node",
                                       "retrieved_schema", "few_shot_examples",
                                       "sql_error", "summary"}
                        THEN "<absent>" ELSE <<"<absent>">>]

Merge(s, u) == [k \in DOMAIN s |-> IF k \in DOMAIN u THEN u[k] ELSE s[k]]

Nodes == {"router", "direct_response", "load_memory", "schema_linking",
          "query_generation", "query_execution", "self_correction",
          "summarization", "plan_visualization", "figure_generation",
          "curate_memory", "save_memory"}

StrKeys == {"question", "user_id", "next_node", "retrieved_schema",
            "few_shot_examples", "sql_error", "summary"}
SeqKeys == {"chat_history", "long_term_memory", "generated_sql", "query_result",
            "visualization_plan", "plotly_figure_json", "facts_to_save"}

\* the State Record with no key set
AgentState == [question |-> ABSENT, chat_history |-> AbsentSeq,
               user_id |-> ABSENT, next_node |-> ABSENT,
               retrieved_schema |-> ABSENT, few_shot_examples |-> ABSENT,
               long_term_memory |-> AbsentSeq, generated_sql |-> AbsentSeq,
               query_result |-> AbsentSeq, sql_error |-> ABSENT,
               summary |-> ABSENT, visualization_plan |-> AbsentSeq,
               plotly_figure_json |-> AbsentSeq, facts_to_save |-> AbsentSeq]

(***************************************************************************)
(* The language-model client.  One invocation returns the content of the   *)
(* first choice, returns None when the response has no choices, or raises  *)
(* once its retries are exhausted.                                         *)
(***************************************************************************)
LlmRaise == "<llm raised>"

LlmRaiseSeq == <<"<llm raised>">>

\* @retry(stop=stop_after_attempt(4), ..., reraise=True)
stop_after_attempt == 4

\* the number of consecutive attempts of one invocation that the model API
\* fails before it would answer
MaxFailures == 4
\* none, the most that still leaves an attempt, and as many as attempts
Failures == Answers({0, MaxFailures - 1, MaxFailures}, {0})

\* invoke_chat_completion under its retry decorator: the body is attempted
\* again after each exception until an attempt returns or the attempt
\* numbered stop_after_attempt has failed, and then the exception of the
\* last attempt is re-raised; error is that exception as the caller sees it
\* (an answer equal to it stands for an API that fails every attempt)
invoke_chat_completion(failures, answer, error) ==
    LET exhausted == failures >= stop_after_attempt \/ answer = error
    IN [attempt_number |-> IF exhausted THEN stop_after_attempt ELSE failures + 1,
        reraised |-> exhausted,
        result |-> IF exhausted THEN error ELSE answer]

\* the texts the model returns to the router (json_mode=True)
RouterResponses ==
    Answers({"{\"route\": \"sql_query\"}", "{\"route\": \"general_conversation\"}",
             "{\"route\": \"data_export\"}", "{\"intent\": \"sql_query\"}",
             "[\"sql_query\"]", "{\"route\":", NULL, LlmRaise},
            {"{\"route\": \"sql_query\"}", "{\"route\": \"general_conversation\"}",
             LlmRaise})

\* the texts the model returns to memory curation (json_mode=True)
CurationResponses ==
    Answers({"{\"facts_to_save\": [\"f1\", \"f2\"]}", "{\"facts_to_save\": []}",
             "{\"intent\": \"sql_query\"}", "[\"sql_query\"]", "{\"route\":",
             NULL, LlmRaise},
            {"{\"facts_to_save\": [\"f1\", \"f2\"]}", "{\"facts_to_save\": []}"})

\* the texts the model returns to visualization planning (json_mode=True)
PlanResponses ==
    Answers({"{\"charts\": [kpi, bar]}", "{\"charts\": []}",
             "{\"charts\": \"kpi\"}", "{'charts':", LlmRaise},
            {"{\"charts\": [kpi, bar]}"})

\* json.loads: the parsed value, or the exception it raises.  A parsed
\* object lists the keys the steps read; a key it lacks is ABSENT.
JsonObject(route, facts) ==
    [raises |-> FALSE, type |-> "object", route |-> route, facts_to_save |-> facts]
JsonRaises == [raises |-> TRUE, type |-> "<none>", route |-> ABSENT,
               facts_to_save |-> AbsentSeq]
json_loads(s) ==
    CASE s = "{\"route\": \"sql_query\"}" -> JsonObject("sql_query", AbsentSeq)
      [] s = "{\"route\": \"general_conversation\"}" ->
             JsonObject("general_conversation", AbsentSeq)
      [] s = "{\"route\": \"data_export\"}" -> JsonObject("data_export", AbsentSeq)
      [] s = "{\"intent\": \"sql_query\"}" -> JsonObject(ABSENT, AbsentSeq)
      [] s = "{\"facts_to_save\": [\"f1\", \"f2\"]}" ->
             JsonObject(ABSENT, <<"f1", "f2">>)
      [] s = "{\"facts_to_save\": []}" -> JsonObject(ABSENT, <<>>)
      [] s = "[\"sql_query\"]" ->
             [raises |-> FALSE, type |-> "array", route |-> ABSENT,
              facts_to_save |-> AbsentSeq]
      [] OTHER -> JsonRaises

\* dict.get(key, default) on a parsed value; .get on a list raises
DictGetRaises(parsed) == parsed.type # "object"
DictGet(v, default) == IF v = ABSENT THEN default ELSE v
DictGetSeq(v, default) == IF v = AbsentSeq THEN default ELSE v

\* VisualizationPlan.model_validate_json: the charts of a valid plan, or a
\* ValidationError for a text that is not JSON or not of the plan's shape
PlanInvalid == <<"<ValidationError>">>
model_validate_json(s) ==
    CASE s = "{\"charts\": [kpi, bar]}" -> <<"kpi", "bar">>
      [] s = "{\"charts\": []}" -> <<>>
      [] OTHER -> PlanInvalid

(***************************************************************************)
(* SQL texts as token sequences                                            *)
(***************************************************************************)
WS == " "
\* the markdown code fences (three backquotes, with and without "sql")
Fences == {"<fence>sql", "<fence>"}
\* tokens whose execution changes database contents
WriteTokens == {"UPDATE", "DROP"}

RECURSIVE LStrip(_)
LStrip(s) == IF s # <<>> /\ Head(s) = WS THEN LStrip(Tail(s)) ELSE s
RECURSIVE RStrip(_)
RStrip(s) == IF s # <<>> /\ s[Len(s)] = WS
                THEN RStrip(SubSeq(s, 1, Len(s) - 1)) ELSE s
\* str.strip()
Strip(s) == RStrip(LStrip(s))
\* str.upper(), token by token
Upper(tok) == IF tok = "select" THEN "SELECT" ELSE tok
\* .replace(fence + "sql", "").replace(fence, "")
RemoveFences(s) == SelectSeq(s, LAMBDA tok : tok \notin Fences)
\* the cleaning query_generation_node and self_correction_node apply
CleanSql(raw) == Strip(RemoveFences(Strip(raw)))
\* str.upper().startswith("SELECT")
StartsWithSelect(s) == s # <<>> /\ Upper(Head(s)) = "SELECT"
\* whether executing the text leaves database contents unchanged
ReadOnly(s) == \A i \in 1..Len(s) : s[i] \notin WriteTokens

\* the texts the model returns to SQL generation and correction
SqlResponses ==
    Answers({<<"<fence>sql", "select", "x", "<fence>", WS>>, <<"UPDATE", "x">>,
             <<"SELECT", "x", ";", "DROP", "x">>, <<"SELECT", "x", "WHERE", "'Alice;">>,
             <<WS>>, NullSeq, LlmRaiseSeq},
            {<<"<fence>sql", "select", "x", "<fence>", WS>>})

(***************************************************************************)
(* tools/sql_tools.py                                                      *)
(***************************************************************************)
\* what the database does with one acquisition and one cursor.execute:
\* no connection (pool not initialized, pool timeout), an error raised by
\* execute, a statement without a result set, or the fetched rows
DbOutcomes ==
    Answers({[kind |-> "no_connection", rows |-> NullSeq,
              message |-> "Database pool is not initialized."],
             [kind |-> "psycopg_error", rows |-> NullSeq,
              message |-> "relation \"sale\" does not exist"],
             [kind |-> "no_description", rows |-> NullSeq, message |-> NULL],
             [kind |-> "rows", rows |-> <<>>, message |-> NULL],
             [kind |-> "rows", rows |-> <<"row1">>, message |-> NULL],
             [kind |-> "rows", rows |-> <<"row1", "row2">>, message |-> NULL]},
            {[kind |-> "psycopg_error", rows |-> NullSeq,
              message |-> "relation \"sale\" does not exist"],
             [kind |-> "rows", rows |-> <<"row1">>, message |-> NULL]})

ToolResult(kind, query_result, sql_error, sent) ==
    [kind |-> kind, query_result |-> query_result, sql_error |-> sql_error,
     sent |-> sent, raises |-> FALSE]

\* a variant without the except clauses: a database error propagates
execute_sql_query_uncaught(sql_query, o) ==
    IF sql_query = NullSeq \/ Strip(sql_query) = <<>>
    THEN ToolResult("empty", NullSeq, "Invalid or empty SQL query provided.", FALSE)
    ELSE IF ~StartsWithSelect(Strip(sql_query))
    THEN ToolResult("non_select", NullSeq,
                    "Security Error: Only SELECT queries are allowed.", FALSE)
    ELSE CASE o.kind = "no_connection" ->
                [ToolResult("no_connection", NullSeq, o.message, FALSE)
                    EXCEPT !.raises = TRUE]
           [] o.kind = "psycopg_error" ->
                [ToolResult("psycopg_error", NullSeq, o.message, TRUE)
                    EXCEPT !.raises = TRUE]
           [] o.kind = "no_description" -> ToolResult("ok", <<>>, NULL, TRUE)
           [] OTHER -> ToolResult("ok", o.rows, NULL, TRUE)

\* execute_sql_query: kind names the branch taken, sent whether the text
\* reached cursor.execute
execute_sql_query(sql_query, o) ==
    IF sql_query = NullSeq \/ Strip(sql_query) = <<>>
    THEN ToolResult("empty", NullSeq, "Invalid or empty SQL query provided.", FALSE)
    ELSE IF ~StartsWithSelect(Strip(sql_query))
    THEN ToolResult("non_select", NullSeq,
                    "Security Error: Only SELECT queries are allowed.", FALSE)
    ELSE CASE o.kind = "no_connection" ->
                ToolResult("no_connection", NullSeq, o.message, FALSE)
           [] o.kind = "psycopg_error" ->
                ToolResult("psycopg_error", NullSeq, o.message, TRUE)
           [] o.kind = "no_description" -> ToolResult("ok", <<>>, NULL, TRUE)
           [] OTHER -> ToolResult("ok", o.rows, NULL, TRUE)

\* get_relevant_schema / get_few_shot_examples: the joined hits, or the
\* text returned when the search finds nothing
SchemaTexts == {"Table: sales"}
ExampleTexts == {"No query examples were found for this type of question."}

(***************************************************************************)
(* tools/analysis_tools.py                                                 *)
(***************************************************************************)
SummaryResponses ==
    Answers({"The total sales were 150.", NULL, LlmRaise},
            {"The total sales were 150."})

\* summarize_results: every failure becomes an error text
summarize_results(query_result, r) ==
    IF ~TruthySeq(query_result)
    THEN "The query returned no data. There is nothing to summarize."
    ELSE IF r = LlmRaise \/ ~Truthy(r)
    THEN "Error: Failed to generate summary."
    ELSE r

\* plan_visualizations: result.get("plan"), None on every failure
plan_visualizations(data, r) ==
    IF ~TruthySeq(data) THEN NullSeq
    ELSE IF r = LlmRaise \/ ~Truthy(r) THEN NullSeq
    ELSE IF model_validate_json(r) = PlanInvalid THEN NullSeq
    ELSE model_validate_json(r)

\* figure.to_json() of the figure rendered for a chart
FigureJson(chart) == IF chart = "kpi" THEN "{indicator}" ELSE "{bar}"

(***************************************************************************)
(* core/vector_store.py: the memory collection, and the boolean expression *)
(* that filters a search                                                   *)
(***************************************************************************)
\* a user id that holds the quote character
QuotingUser == "alice\" or user_id != \"alice"

\* the tokens the expression parser reads where the user id is placed
\* between the quotes of the format string
UserIdTokens(user_id) ==
    IF user_id = QuotingUser
    THEN <<"alice", "\"", "or", "user_id", "!=", "\"", "alice">>
    ELSE <<user_id>>

\* filter_expr = f'user_id == "{user_id}"'
filter_expr(user_id) ==
    <<"user_id", "==", "\"">> \o UserIdTokens(user_id) \o <<"\"">>

\* whether a stored row satisfies the expression: comparisons of the
\* user_id field with a quoted literal, joined by or
RECURSIVE Matches(_, _)
Matches(expr, row_user) ==
    IF Len(expr) < 5 THEN FALSE
    ELSE LET cmp == IF expr[2] = "==" THEN row_user = expr[4]
                    ELSE row_user # expr[4]
         IN IF Len(expr) > 5 /\ expr[6] = "or"
            THEN cmp \/ Matches(SubSeq(expr, 7, Len(expr)), row_user)
            ELSE cmp

\* settings.MEMORY_SEARCH_TOP_K
MEMORY_SEARCH_TOP_K == 5

\* similarity_search: at most top_k of the inserted rows that satisfy the
\* filter expression
similarity_search(store, expr) ==
    LET hits == SelectSeq(store, LAMBDA w : w.ok /\ Matches(expr, w.user_id))
    IN SubSeq(hits, 1, IF Len(hits) < MEMORY_SEARCH_TOP_K THEN Len(hits)
                       ELSE MEMORY_SEARCH_TOP_K)

(***************************************************************************)
(* tools/memory_management.py                                              *)
(***************************************************************************)
\* load_memory: the texts stored for the user, rendered as the lines of the
\* returned context
load_memory(user_id, store) ==
    LET hits == similarity_search(store, filter_expr(user_id))
    IN IF hits = <<>>
       THEN <<"No relevant long-term memories were found for this user.">>
       ELSE <<"Here are some potentially relevant facts from past conversations:">>
            \o [i \in 1..Len(hits) |-> hits[i].fact]

\* a variant that gives up at the first insert that fails
RECURSIVE save_memory_until_failure(_, _, _, _)
save_memory_until_failure(user_id, facts, written, store) ==
    IF facts = <<>> THEN store
    ELSE IF ~Head(written)
    THEN Append(store, [user_id |-> user_id, fact |-> Head(facts), ok |-> FALSE])
    ELSE save_memory_until_failure(user_id, Tail(facts), Tail(written),
            Append(store, [user_id |-> user_id, fact |-> Head(facts), ok |-> TRUE]))

\* save_memory for each fact in turn; written[i] tells whether the insert
\* of the i-th fact succeeded (add_documents logs a failure and returns)
RECURSIVE save_memory(_, _, _, _)
save_memory(user_id, facts, written, store) ==
    IF facts = <<>> THEN store
    ELSE save_memory(user_id, Tail(facts), Tail(written),
            IF Truthy(Head(facts))
            THEN Append(store, [user_id |-> user_id, fact |-> Head(facts),
                                ok |-> Head(written)])
            ELSE store)

(***************************************************************************)
(* agents/nodes.py: each node maps the State Record and what its           *)
(* collaborators answer to the partial update it returns, or raises        *)
(***************************************************************************)
Returns(update) == [raises |-> FALSE, update |-> update]
NodeRaises == [raises |-> TRUE, update |-> <<>>]

router_node(s, r) ==
    IF r = LlmRaise THEN NodeRaises
    ELSE LET routing_result == json_loads(r)
         IN IF routing_result.raises \/ DictGetRaises(routing_result)
            THEN NodeRaises
            ELSE Returns([next_node |->
                            DictGet(routing_result.route, "general_conversation")])

DirectResponses ==
    Answers({"Hello! How can I help?", NULL, LlmRaise}, {"Hello! How can I help?"})

direct_response_node(s, r) ==
    IF r = LlmRaise \/ s.question = ABSENT THEN NodeRaises
    ELSE Returns([summary |-> r])

\* a variant that searches the store whoever the user is
load_memory_node_unguarded(s, store) ==
    Returns([long_term_memory |-> load_memory(Get(s.user_id), store)])

load_memory_node(s, store) ==
    IF ~Truthy(Get(s.user_id))
    THEN Returns([long_term_memory |->
                    <<"Long-term memory is disabled for this session.">>])
    ELSE Returns([long_term_memory |-> load_memory(s.user_id, store)])

\* a variant that returns the schema without the examples
schema_linking_node_schema_only(s, schema, examples) ==
    Returns([retrieved_schema |-> schema])

schema_linking_node(s, schema, examples) ==
    Returns([retrieved_schema |-> schema, few_shot_examples |-> examples])

query_generation_node(s, r) ==
    IF s.question = ABSENT \/ s.retrieved_schema = ABSENT
       \/ s.few_shot_examples = ABSENT
    THEN NodeRaises
    ELSE IF r = LlmRaiseSeq \/ r = NullSeq THEN NodeRaises
    ELSE Returns([generated_sql |-> CleanSql(r)])

\* a variant that returns the rows and the text but not the error
query_execution_node_without_error(s, o) ==
    LET sql_query == GetSeq(s.generated_sql)
        result == execute_sql_query(sql_query, o)
    IN Returns([query_result |-> result.query_result,
                generated_sql |-> sql_query])

query_execution_node(s, o) ==
    LET sql_query == GetSeq(s.generated_sql)
        result == execute_sql_query(sql_query, o)
    IN IF result.raises THEN NodeRaises
       ELSE Returns([query_result |-> result.query_result,
                     sql_error |-> result.sql_error,
                     generated_sql |-> sql_query])

\* a variant that returns the corrected query and leaves the error
self_correction_node_keeping_error(s, r) ==
    IF s.question = ABSENT \/ s.generated_sql = AbsentSeq
       \/ s.sql_error = ABSENT \/ s.retrieved_schema = ABSENT
    THEN NodeRaises
    ELSE IF r = LlmRaiseSeq \/ r = NullSeq THEN NodeRaises
    ELSE Returns([generated_sql |-> CleanSql(r)])

self_correction_node(s, r) ==
    IF s.question = ABSENT \/ s.generated_sql = AbsentSeq
       \/ s.sql_error = ABSENT \/ s.retrieved_schema = ABSENT
    THEN NodeRaises
    ELSE IF r = LlmRaiseSeq \/ r = NullSeq THEN NodeRaises
    ELSE Returns([generated_sql |-> CleanSql(r), sql_error |-> NULL])

summarization_node(s, r) ==
    LET query_result == GetSeq(s.query_result)
    IN IF ~TruthySeq(query_result)
       THEN Returns([summary |-> "The query returned no data to summarize."])
       ELSE IF s.question = ABSENT THEN NodeRaises
       ELSE Returns([summary |-> summarize_results(query_result, r)])

visualization_planning_node(s, r) ==
    LET query_result == GetSeq(s.query_result)
    IN IF ~TruthySeq(query_result)
       THEN Returns([visualization_plan |-> NullSeq])
       ELSE IF s.question = ABSENT THEN NodeRaises
       ELSE Returns([visualization_plan |-> plan_visualizations(query_result, r)])

\* rendered[i] tells whether create_plotly_figure returned a figure for
\* the i-th chart of the plan
RECURSIVE figures_as_json(_, _)
figures_as_json(charts, rendered) ==
    IF charts = <<>> THEN <<>>
    ELSE (IF Head(rendered) THEN <<FigureJson(Head(charts))>> ELSE <<>>)
         \o figures_as_json(Tail(charts), Tail(rendered))

\* a variant that lets the failure of a chart through
figure_generation_node_raising(s, rendered) ==
    LET plan == GetSeq(s.visualization_plan)
        data == GetSeq(s.query_result)
    IN IF ~TruthySeq(plan) \/ ~TruthySeq(data)
       THEN Returns([plotly_figure_json |-> <<>>])
       ELSE IF \E i \in 1..Len(plan) : ~rendered[i] THEN NodeRaises
       ELSE Returns([plotly_figure_json |-> figures_as_json(plan, rendered)])

figure_generation_node(s, rendered) ==
    LET plan == GetSeq(s.visualization_plan)
        data == GetSeq(s.query_result)
    IN IF ~TruthySeq(plan) \/ ~TruthySeq(data)
       THEN Returns([plotly_figure_json |-> <<>>])
       ELSE Returns([plotly_figure_json |-> figures_as_json(plan, rendered)])

\* a variant that asks the model whatever the chat history is
curate_memory_node_unguarded(s, r) ==
    IF r = LlmRaise \/ ~Truthy(r) THEN Returns([facts_to_save |-> <<>>])
    ELSE LET curation_result == json_loads(r)
         IN IF curation_result.raises \/ DictGetRaises(curation_result)
            THEN Returns([facts_to_save |-> <<>>])
            ELSE Returns([facts_to_save |->
                            DictGetSeq(curation_result.facts_to_save, <<>>)])

curate_memory_node(s, r) ==
    LET chat_history == GetSeq(s.chat_history)
    IN IF ~TruthySeq(chat_history) THEN Returns([facts_to_save |-> <<>>])
       ELSE IF r = LlmRaise \/ ~Truthy(r) THEN Returns([facts_to_save |-> <<>>])
       ELSE LET curation_result == json_loads(r)
            IN IF curation_result.raises \/ DictGetRaises(curation_result)
               THEN Returns([facts_to_save |-> <<>>])
               ELSE Returns([facts_to_save |->
                               DictGetSeq(curation_result.facts_to_save, <<>>)])

\* save_memory_node returns the empty mapping on every path
save_memory_node(s) == Returns(<<>>)

\* the store after save_memory_node
save_memory_writes(s, written, store) ==
    IF ~Truthy(Get(s.user_id)) \/ ~TruthySeq(GetSeq(s.facts_to_save))
    THEN store
    ELSE save_memory(s.user_id, s.facts_to_save, written, store)

(***************************************************************************)
(* core/agent.py: the edges of the graph                                   *)
(***************************************************************************)
EdgeRaise == "<KeyError>"

\* a variant that also counts the executions of the turn
should_continue_to_summarization_counting(s) ==
    IF Len(attempts) >= 2 THEN "summarization"
    ELSE IF Truthy(Get(s.sql_error)) THEN "self_correction"
    ELSE "summarization"

\* a variant that takes an empty result for a failure
should_continue_to_summarization_on_result(s) ==
    IF ~TruthySeq(GetSeq(s.query_result)) THEN "self_correction"
    ELSE "summarization"

should_continue_to_summarization(s) ==
    IF Truthy(Get(s.sql_error)) THEN "self_correction" ELSE "summarization"

\* a variant that tests the result against None only
should_continue_to_visualization_not_none(s) ==
    IF GetSeq(s.query_result) # NullSeq THEN "plan_visualization"
    ELSE "curate_memory"

should_continue_to_visualization(s) ==
    IF TruthySeq(GetSeq(s.query_result)) THEN "plan_visualization"
    ELSE "curate_memory"

\* the router's conditional edge: lambda s: s["next_node"] looked up in
\* the path map; a label the map lacks raises
router_edge(s) ==
    CASE s.next_node = "general_conversation" -> "direct_response"
      [] s.next_node = "sql_query" -> "load_memory"
      [] OTHER -> EdgeRaise

\* a variant of the graph that gives up correcting after two executions
NextNodeWithRetryCap(node, s) ==
    CASE node = "router" -> router_edge(s)
      [] node = "direct_response" -> "curate_memory"
      [] node = "load_memory" -> "schema_linking"
      [] node = "schema_linking" -> "query_generation"
      [] node = "query_generation" -> "query_execution"
      [] node = "query_execution" ->
            IF Len(attempts) >= 2 THEN "summarization"
            ELSE should_continue_to_summarization(s)
      [] node = "self_correction" -> "query_execution"
      [] node = "summarization" -> should_continue_to_visualization(s)
      [] node = "plan_visualization" -> "figure_generation"
      [] node = "figure_generation" -> "curate_memory"
      [] node = "curate_memory" -> "save_memory"
      [] node = "save_memory" -> END

\* a variant where direct_response is followed by summarization
NextNodeSummarizingChat(node, s) ==
    CASE node = "router" -> router_edge(s)
      [] node = "direct_response" -> "summarization"
      [] node = "load_memory" -> "schema_linking"
      [] node = "schema_linking" -> "query_generation"
      [] node = "query_generation" -> "query_execution"
      [] node = "query_execution" -> should_continue_to_summarization(s)
      [] node = "self_correction" -> "query_execution"
      [] node = "summarization" -> should_continue_to_visualization(s)
      [] node = "plan_visualization" -> "figure_generation"
      [] node = "figure_generation" -> "curate_memory"
      [] node = "curate_memory" -> "save_memory"
      [] node = "save_memory" -> END

\* the node that runs after node, given the merged State Record
NextNode(node, s) ==
    CASE node = "router" -> router_edge(s)
      [] node = "direct_response" -> "curate_memory"
      [] node = "load_memory" -> "schema_linking"
      [] node = "schema_linking" -> "query_generation"
      [] node = "query_generation" -> "query_execution"
      [] node = "query_execution" -> should_continue_to_summarization(s)
      [] node = "self_correction" -> "query_execution"
      [] node = "summarization" -> should_continue_to_visualization(s)
      [] node = "plan_visualization" -> "figure_generation"
      [] node = "figure_generation" -> "curate_memory"
      [] node = "curate_memory" -> "save_memory"
      [] node = "save_memory" -> END

(***************************************************************************)
(* The executor (the compiled graph): one step runs a node, merges its     *)
(* update, evaluates the outgoing edge, saves the checkpoint of the thread *)
(* and hands one event to the caller.  A node or an edge that raises ends  *)
(* the stream with the exception; nothing of that step is kept.            *)
(***************************************************************************)
Uuids == <<"uuid-1", "uuid-2", "uuid-3">>

Threads == {Uuids[i] : i \in 1..Len(Uuids)}
           \cup {"user-default-user", "user-alice", "user-None",
                 "user-alice\" or user_id != \"alice", "conversation-1"}

NoCheckpoint == [state |-> AgentState, next |-> NoNode, nsteps |-> 0]

node_display_names ==
    [router |-> "Routing Query...",
     schema_linking |-> "Analyzing Database Schema...",
     load_memory |-> "Loading Personal Memory...",
     query_generation |-> "Writing SQL Query...",
     query_execution |-> "Executing SQL Query...",
     self_correction |-> "Attempting to Correct SQL Error...",
     summarization |-> "Summarizing Results...",
     plan_visualization |-> "Planning Visualizations...",
     figure_generation |-> "Generating Charts...",
     curate_memory |-> "Analyzing Conversation...",
     save_memory |-> "Saving Key Facts to Memory...",
     direct_response |-> "Executing direct_response..."]

\* create_sse_chunk; the content is the text or the JSON object it carries
create_sse_chunk(content, finish_reason) ==
    [content |-> content, finish_reason |-> finish_reason]
StatusUpdate(message) ==
    [status |-> "in_progress", message |-> message, chart |-> "none"]
ErrorMessage ==
    [status |-> "error", message |-> "An unexpected server error occurred",
     chart |-> "none"]
ResponseContent(summary, chart) ==
    [status |-> "<text>", message |-> summary, chart |-> chart]
DONE == [content |-> [status |-> "[DONE]", message |-> "", chart |-> "none"],
         finish_reason |-> NULL]

NoResponse == [kind |-> "<none>", content |-> ABSENT, images |-> 0]

\* what the caller's loop body does with the event of a completed step
\* (the value of the event is None when the update is empty)
\* a variant of the streaming endpoint that passes over an empty update
ConsumeSkippingEmpty(node, update) ==
    CASE entry = "api" ->
            /\ sse' = IF DOMAIN update = {} THEN sse
                      ELSE Append(sse, create_sse_chunk(
                               StatusUpdate(node_display_names[node]), NULL))
            /\ UNCHANGED <<final_state, callerPc>>
      [] entry = "main" ->
            /\ final_state' = IF DOMAIN update # {}
                              THEN Merge(final_state, update) ELSE final_state
            /\ UNCHANGED <<sse, callerPc>>
      [] entry = "pipe" ->
            /\ IF DOMAIN update = {}
               THEN callerPc' = "except" /\ UNCHANGED final_state
               ELSE callerPc' = callerPc /\ final_state' = Merge(final_state, update)
            /\ UNCHANGED sse

Consume(node, update) ==
    CASE entry = "api" ->
            /\ sse' = Append(sse, create_sse_chunk(
                          StatusUpdate(node_display_names[node]), NULL))
            /\ UNCHANGED <<final_state, callerPc>>
      [] entry = "main" ->
            /\ final_state' = IF DOMAIN update # {}
                              THEN Merge(final_state, update) ELSE final_state
            /\ UNCHANGED <<sse, callerPc>>
      [] entry = "pipe" ->
            /\ IF DOMAIN update = {}
               THEN callerPc' = "except" /\ UNCHANGED final_state
               ELSE callerPc' = callerPc /\ final_state' = Merge(final_state, update)
            /\ UNCHANGED sse

\* a variant that keeps one checkpoint row for all threads
CommitUnderOneKey(node, update) ==
    LET merged == Merge(state, update)
        next == NextNode(node, merged)
    IN /\ state' = merged
       /\ pc' = next
       /\ steps' = Append(steps, node)
       /\ checkpoint' = [t \in Threads |->
                           [state |-> merged, next |-> next,
                            nsteps |-> checkpoint[thread_id].nsteps + 1]]
       /\ raised' = raised
       /\ persisted' = FALSE
       /\ Consume(node, update)
       /\ UNCHANGED server

\* the executor hands the checkpoint of a completed step to the saver as a
\* background task and goes on to the next step; the pending writes are
\* awaited when the run ends, normally or with an exception.  checkpoint
\* holds the submitted writes, persisted tells whether they have landed.
Commit(node, update) ==
    LET merged == Merge(state, update)
        next == NextNode(node, merged)
    IN /\ state' = merged
       /\ pc' = next
       /\ steps' = Append(steps, node)
       /\ checkpoint' = [checkpoint EXCEPT ![thread_id] =
                           [state |-> merged, next |-> next,
                            nsteps |-> @.nsteps + 1]]
       /\ raised' = raised
       /\ persisted' = FALSE
       /\ Consume(node, update)
       /\ UNCHANGED server

Abort(node) ==
    /\ raised' = node
    /\ callerPc' = "except"
    /\ persisted' = TRUE
    /\ UNCHANGED <<state, pc, steps, checkpoint, final_state, sse>>
    /\ UNCHANGED server

Step(node, result) ==
    /\ callerPc = "streaming"
    /\ pc = node
    /\ raised = NoNode
    /\ IF result.raises \/ NextNode(node, Merge(state, result.update)) = EdgeRaise
       THEN Abort(node)
       ELSE Commit(node, result.update)

(***************************************************************************)
(* The server after startup, and the start of a turn                       *)
(***************************************************************************)
Question == "What were total sales last month?"
ApiHistories == {<<"human: What were total sales last month?">>}
MainUsers ==
    Answers({"default-user", "alice", NULL, QuotingUser}, {"default-user", QuotingUser})
PipeConversations == {"conversation-1"}

NoExec == [kind |-> "<none>", query_result |-> AbsentSeq, sql_error |-> ABSENT,
           sent |-> FALSE, raises |-> FALSE]

NotSeen == "<not called>"
NoInvocation ==
    [router |-> NotSeen, plan |-> NotSeen, curation |-> NotSeen,
     invoked_by |-> NotSeen, attempt_number |-> 0, reraised |-> FALSE,
     filter_expr |-> <<>>]

\* a request handler that has not started a turn
IdleHandler ==
    [callerPc |-> "idle", entry |-> "<none>", thread_id |-> "<none>",
     state |-> AgentState, pc |-> NoNode, raised |-> NoNode, steps |-> <<>>,
     attempts |-> <<>>, last_exec |-> NoExec,
     llm_seen |-> NoInvocation,
     final_state |-> AgentState, sse |-> <<>>, response |-> NoResponse,
     persisted |-> TRUE]

\* the server after startup: no turn has run, the stores are empty
Started ==
    /\ callerPc = "idle"
    /\ entry = "<none>"
    /\ thread_id = "<none>"
    /\ state = AgentState
    /\ pc = NoNode
    /\ raised = NoNode
    /\ steps = <<>>
    /\ attempts = <<>>
    /\ last_exec = NoExec
    /\ llm_seen = NoInvocation
    /\ checkpoint = [t \in Threads |-> NoCheckpoint]
    /\ final_state = AgentState
    /\ sse = <<>>
    /\ response = NoResponse
    /\ db_sent = {}
    /\ db_writes = 0
    /\ memory_store = <<>>
    /\ persisted = TRUE
    /\ parked = IdleHandler
    /\ turns = 0

Init == Started /\ wide = TRUE

\* astream(input, config): the input is written over the thread's latest
\* checkpoint and the graph starts at its entry point
StartTurn(e, t, input) ==
    /\ callerPc = "idle"
    /\ turns < MaxTurns
    /\ turns' = turns + 1
    /\ persisted' = FALSE
    /\ UNCHANGED <<parked, wide>>
    /\ callerPc' = "streaming"
    /\ entry' = e
    /\ thread_id' = t
    /\ state' = Merge(checkpoint[t].state, input)
    /\ pc' = "router"
    /\ checkpoint' = [checkpoint EXCEPT ![t] =
                        [state |-> Merge(@.state, input), next |-> "router",
                         nsteps |-> 0]]
    /\ UNCHANGED <<raised, steps, attempts, last_exec, llm_seen, final_state, sse,
                   response, db_sent, db_writes, memory_store>>

\* uuid.uuid4(): an identifier no earlier request was given
uuid4 == Uuids[turns + 1]

\* the thread id main.py derives from the user
UserThread(user) ==
    CASE user = "alice" -> "user-alice"
      [] user = NULL -> "user-None"
      [] user = QuotingUser -> "user-alice\" or user_id != \"alice"
      [] OTHER -> "user-default-user"

\* app/api.py chat_completions: a fresh thread id, the fixed user id and
\* the request's messages as chat_history
ApiChatCompletions ==
    \E history \in ApiHistories :
        StartTurn("api", uuid4,
                  [question |-> Question, chat_history |-> history,
                   user_id |-> "open-webui-user"])

\* app/main.py chat_completions: the thread id is derived from the user
MainChatCompletions ==
    \E user \in MainUsers :
        StartTurn("main", UserThread(user),
                  [question |-> Question, user_id |-> user])

\* langgraph_agent_pipe.py Pipeline.pipe: the conversation id is both the
\* thread id and the user id
PipelinePipe ==
    \E conversation \in PipeConversations :
        StartTurn("pipe", conversation,
                  [question |-> Question, user_id |-> conversation])

(***************************************************************************)
(* One action per graph step                                               *)
(***************************************************************************)
\* what the retry decorator has seen of the invocation a step makes
Invoked(node, call) ==
    [llm_seen EXCEPT !.invoked_by = node,
                     !.attempt_number = call.attempt_number,
                     !.reraised = call.reraised]

Router ==
    \E r \in RouterResponses, failures \in Failures :
        LET call == invoke_chat_completion(failures, r, LlmRaise)
        IN /\ Step("router", router_node(state, call.result))
           /\ llm_seen' = [Invoked("router", call) EXCEPT !.router = call.result]
        /\ UNCHANGED <<entry, thread_id, attempts, last_exec, response, db_sent,
                       db_writes, memory_store>>

DirectResponse ==
    \E r \in DirectResponses, failures \in Failures :
        LET call == invoke_chat_completion(failures, r, LlmRaise)
        IN /\ Step("direct_response", direct_response_node(state, call.result))
           /\ llm_seen' = IF state.question = ABSENT THEN llm_seen
                          ELSE Invoked("direct_response", call)
        /\ UNCHANGED <<entry, thread_id, attempts, last_exec, response, db_sent,
                       db_writes, memory_store>>

LoadMemory ==
    /\ Step("load_memory", load_memory_node(state, memory_store))
    /\ llm_seen' = IF Truthy(Get(state.user_id))
                   THEN [llm_seen EXCEPT !.filter_expr = filter_expr(state.user_id)]
                   ELSE llm_seen
    /\ UNCHANGED <<entry, thread_id, attempts, last_exec, response, db_sent,
                   db_writes, memory_store>>

SchemaLinking ==
    \E schema \in SchemaTexts, examples \in ExampleTexts :
        /\ Step("schema_linking", schema_linking_node(state, schema, examples))
        /\ UNCHANGED <<entry, thread_id, attempts, last_exec, llm_seen, response,
                       db_sent, db_writes, memory_store>>

QueryGeneration ==
    \E r \in SqlResponses, failures \in Failures :
        LET call == invoke_chat_completion(failures, r, LlmRaiseSeq)
        IN /\ Step("query_generation", query_generation_node(state, call.result))
           /\ llm_seen' = IF state.question = ABSENT \/ state.retrieved_schema = ABSENT
                             \/ state.few_shot_examples = ABSENT
                          THEN llm_seen
                          ELSE Invoked("query_generation", call)
        /\ UNCHANGED <<entry, thread_id, attempts, last_exec, response, db_sent,
                       db_writes, memory_store>>

QueryExecution ==
    \E o \in DbOutcomes :
        LET sql_query == GetSeq(state.generated_sql)
            result == execute_sql_query(sql_query, o)
        IN /\ Len(attempts) < MaxExec
           /\ Step("query_execution", query_execution_node(state, o))
           /\ db_sent' = IF result.sent THEN db_sent \cup {sql_query} ELSE db_sent
           /\ db_writes' = IF result.sent /\ result.kind = "ok" /\ ~ReadOnly(sql_query)
                           THEN db_writes + 1 ELSE db_writes
           /\ attempts' = IF result.raises THEN attempts
                          ELSE Append(attempts, result.sql_error = NULL)
           /\ last_exec' = result
           /\ UNCHANGED <<entry, thread_id, llm_seen, response, memory_store>>

SelfCorrection ==
    \E r \in SqlResponses, failures \in Failures :
        LET call == invoke_chat_completion(failures, r, LlmRaiseSeq)
        IN /\ Step("self_correction", self_correction_node(state, call.result))
           /\ llm_seen' = IF state.question = ABSENT \/ state.generated_sql = AbsentSeq
                             \/ state.sql_error = ABSENT \/ state.retrieved_schema = ABSENT
                          THEN llm_seen
                          ELSE Invoked("self_correction", call)
        /\ UNCHANGED <<entry, thread_id, attempts, last_exec, response, db_sent,
                       db_writes, memory_store>>

Summarization ==
    \E r \in SummaryResponses, failures \in Failures :
        LET call == invoke_chat_completion(failures, r, LlmRaise)
        IN /\ Step("summarization", summarization_node(state, call.result))
           /\ llm_seen' = IF ~TruthySeq(GetSeq(state.query_result))
                             \/ state.question = ABSENT
                          THEN llm_seen
                          ELSE Invoked("summarization", call)
        /\ UNCHANGED <<entry, thread_id, attempts, last_exec, response, db_sent,
                       db_writes, memory_store>>

PlanVisualization ==
    \E r \in PlanResponses, failures \in Failures :
        LET call == invoke_chat_completion(failures, r, LlmRaise)
        IN /\ Step("plan_visualization",
                   visualization_planning_node(state, call.result))
           /\ llm_seen' = IF ~TruthySeq(GetSeq(state.query_result))
                             \/ state.question = ABSENT
                          THEN [llm_seen EXCEPT !.plan = call.result]
                          ELSE [Invoked("plan_visualization", call)
                                  EXCEPT !.plan = call.result]
        /\ UNCHANGED <<entry, thread_id, attempts, last_exec, response, db_sent,
                       db_writes, memory_store>>

FigureGeneration ==
    \E rendered \in Answers([1..Len(GetSeq(state.visualization_plan)) -> BOOLEAN],
                             {[i \in 1..Len(GetSeq(state.visualization_plan)) |-> TRUE]}) :
        /\ Step("figure_generation", figure_generation_node(state, rendered))
        /\ UNCHANGED <<entry, thread_id, attempts, last_exec, llm_seen, response,
                       db_sent, db_writes, memory_store>>

CurateMemory ==
    \E r \in CurationResponses, failures \in Failures :
        LET call == invoke_chat_completion(failures, r, LlmRaise)
        IN /\ Step("curate_memory", curate_memory_node(state, call.result))
           /\ llm_seen' = IF TruthySeq(GetSeq(state.chat_history))
                          THEN [Invoked("curate_memory", call)
                                  EXCEPT !.curation = call.result]
                          ELSE llm_seen
        /\ UNCHANGED <<entry, thread_id, attempts, last_exec, response, db_sent,
                       db_writes, memory_store>>

SaveMemory ==
    \E written \in Answers([1..Len(GetSeq(state.facts_to_save)) -> BOOLEAN],
                            {[i \in 1..Len(GetSeq(state.facts_to_save)) |-> TRUE]}) :
        /\ Step("save_memory", save_memory_node(state))
        /\ memory_store' = save_memory_writes(state, written, memory_store)
        /\ UNCHANGED <<entry, thread_id, attempts, last_exec, llm_seen, response,
                       db_sent, db_writes>>

(***************************************************************************)
(* The callers after the stream has ended                                  *)
(***************************************************************************)
\* the saver's background task completes
Persist ==
    /\ ~persisted
    /\ persisted' = TRUE
    /\ UNCHANGED <<callerPc, entry, thread_id, state, pc, raised, steps, attempts,
                   last_exec, llm_seen, checkpoint, final_state, sse, response,
                   db_sent, db_writes, memory_store, parked, turns, wide>>

\* the stream ends once the run has awaited its pending checkpoint writes
StreamEnded ==
    callerPc = "streaming" /\ pc = END /\ raised = NoNode /\ persisted

\* app/api.py stream_agent_response after the loop: the final chunk, then
\* the [DONE] marker
ApiRespond ==
    /\ entry = "api"
    /\ StreamEnded
    /\ LET summary == DictGet(final_state.summary,
                              "The agent did not produce a summary.")
           plotly_figure_json == DictGetSeq(final_state.plotly_figure_json, <<>>)
       IN IF TruthySeq(plotly_figure_json)
          THEN \E chart \in {"image", "failed"} :
                 sse' = sse \o
                   <<create_sse_chunk(StatusUpdate("Rendering chart..."), NULL),
                     create_sse_chunk(ResponseContent(summary, chart), "stop"),
                     DONE>>
          ELSE sse' = sse \o
                   <<create_sse_chunk(ResponseContent(summary, "none"), "stop"),
                     DONE>>
    /\ callerPc' = "responded"
    /\ UNCHANGED <<entry, thread_id, state, pc, raised, steps, attempts,
                   last_exec, llm_seen, checkpoint, final_state, response, db_sent,
                   db_writes, memory_store, persisted, parked, turns, wide>>

\* app/api.py stream_agent_response, except branch
ApiExcept ==
    /\ entry = "api"
    /\ callerPc = "except"
    /\ sse' = sse \o <<create_sse_chunk(ErrorMessage, "stop"), DONE>>
    /\ callerPc' = "responded"
    /\ UNCHANGED <<entry, thread_id, state, pc, raised, steps, attempts,
                   last_exec, llm_seen, checkpoint, final_state, response, db_sent,
                   db_writes, memory_store, persisted, parked, turns, wide>>

\* app/main.py chat_completions after the loop: images counts the figures
\* that convert_fig_to_base64 turned into an image
MainRespond ==
    /\ entry = "main"
    /\ StreamEnded
    /\ LET summary == DictGet(final_state.summary,
                 "I was unable to process your request. Please try again.")
           figures_json == DictGetSeq(final_state.plotly_figure_json, <<>>)
       IN \E images \in 0..Len(figures_json) :
            response' = [kind |-> "completion", content |-> summary,
                         images |-> images]
    /\ callerPc' = "responded"
    /\ UNCHANGED <<entry, thread_id, state, pc, raised, steps, attempts,
                   last_exec, llm_seen, checkpoint, final_state, sse, db_sent,
                   db_writes, memory_store, persisted, parked, turns, wide>>

\* a variant of the except branch that answers with the default summary
MainExceptAnswersDefault ==
    /\ entry = "main"
    /\ callerPc = "except"
    /\ response' = [kind |-> "completion",
                    content |-> DictGet(final_state.summary,
                       "I was unable to process your request. Please try again."),
                    images |-> 0]
    /\ callerPc' = "responded"
    /\ UNCHANGED <<entry, thread_id, state, pc, raised, steps, attempts,
                   last_exec, llm_seen, checkpoint, final_state, sse, db_sent,
                   db_writes, memory_store, persisted, parked, turns, wide>>

\* app/main.py chat_completions, except branch: HTTP 500
MainExcept ==
    /\ entry = "main"
    /\ callerPc = "except"
    /\ response' = [kind |-> "http_500", content |-> "An internal error occurred",
                    images |-> 0]
    /\ callerPc' = "responded"
    /\ UNCHANGED <<entry, thread_id, state, pc, raised, steps, attempts,
                   last_exec, llm_seen, checkpoint, final_state, sse, db_sent,
                   db_writes, memory_store, persisted, parked, turns, wide>>

\* langgraph_agent_pipe.py Pipeline.pipe after the loop: the summary, or
\* the error text of the except branch
PipeReturn ==
    /\ entry = "pipe"
    /\ StreamEnded \/ callerPc = "except"
    /\ LET summary == DictGet(final_state.summary, "No summary was generated.")
           figures_json == DictGetSeq(final_state.plotly_figure_json, <<>>)
       IN IF callerPc = "except"
          THEN response' = [kind |-> "error_text",
                  content |-> "An error occurred while processing your request",
                  images |-> 0]
          ELSE \E images \in 0..Len(figures_json) :
                 response' = [kind |-> "completion", content |-> summary,
                              images |-> images]
    /\ callerPc' = "responded"
    /\ UNCHANGED <<entry, thread_id, state, pc, raised, steps, attempts,
                   last_exec, llm_seen, checkpoint, final_state, sse, db_sent,
                   db_writes, memory_store, persisted, parked, turns, wide>>

Next ==
    \/ ApiChatCompletions
    \/ MainChatCompletions
    \/ PipelinePipe
    \/ Router
    \/ DirectResponse
    \/ LoadMemory
    \/ SchemaLinking
    \/ QueryGeneration
    \/ QueryExecution
    \/ SelfCorrection
    \/ Summarization
    \/ PlanVisualization
    \/ FigureGeneration
    \/ CurateMemory
    \/ SaveMemory
    \/ ApiRespond
    \/ ApiExcept
    \/ MainRespond
    \/ MainExcept
    \/ PipeReturn
    \/ Persist

Spec == Init /\ [][Next]_vars

(***************************************************************************)
(* Several turns on one server.  The variables of a request handler are    *)
(* those of the handler that runs; the other handler waits in parked, and  *)
(* the asyncio scheduler passes control between the two at the awaits of   *)
(* the steps.  The checkpoint store, the database and the memory           *)
(* collection are shared by both.                                          *)
(***************************************************************************)
Running ==
    [callerPc |-> callerPc, entry |-> entry, thread_id |-> thread_id,
     state |-> state, pc |-> pc, raised |-> raised, steps |-> steps,
     attempts |-> attempts, last_exec |-> last_exec, llm_seen |-> llm_seen,
     final_state |-> final_state, sse |-> sse, response |-> response,
     persisted |-> persisted]

\* the scheduler resumes the other handler
Switch ==
    /\ parked # Running
    /\ parked' = Running
    /\ callerPc' = parked.callerPc
    /\ entry' = parked.entry
    /\ thread_id' = parked.thread_id
    /\ state' = parked.state
    /\ pc' = parked.pc
    /\ raised' = parked.raised
    /\ steps' = parked.steps
    /\ attempts' = parked.attempts
    /\ last_exec' = parked.last_exec
    /\ llm_seen' = parked.llm_seen
    /\ final_state' = parked.final_state
    /\ sse' = parked.sse
    /\ response' = parked.response
    /\ persisted' = parked.persisted
    /\ UNCHANGED <<checkpoint, db_sent, db_writes, memory_store, turns, wide>>

\* the process is killed between two steps of the only running turn, after
\* the checkpoint of the last completed step has landed; the stores keep
\* what was written, and the other handler is the one the restarted server
\* gives the next request to
Kill ==
    /\ callerPc = "streaming"
    /\ persisted
    /\ parked.callerPc = "idle"
    /\ callerPc' = "killed"
    /\ UNCHANGED <<entry, thread_id, state, pc, raised, steps, attempts,
                   last_exec, llm_seen, checkpoint, final_state, sse, response,
                   db_sent, db_writes, memory_store, persisted, parked, turns,
                   wide>>

NextTurns ==
    \/ ApiChatCompletions
    \/ MainChatCompletions
    \/ PipelinePipe
    \/ Router
    \/ DirectResponse
    \/ LoadMemory
    \/ SchemaLinking
    \/ QueryGeneration
    \/ QueryExecution
    \/ SelfCorrection
    \/ Summarization
    \/ PlanVisualization
    \/ FigureGeneration
    \/ CurateMemory
    \/ SaveMemory
    \/ ApiRespond
    \/ ApiExcept
    \/ MainRespond
    \/ MainExcept
    \/ PipeReturn
    \/ Persist
    \/ Switch
    \/ Kill

InitTurns == Started /\ wide = FALSE

SpecTurns == InitTurns /\ [][NextTurns]_vars

TypeOK ==
    /\ callerPc \in {"idle", "streaming", "except", "responded", "killed"}
    /\ turns \in 0..MaxTurns
    /\ wide \in BOOLEAN
    /\ persisted \in BOOLEAN
    /\ parked.callerPc \in {"idle", "streaming", "except", "responded", "killed"}
    /\ pc \in Nodes \cup {NoNode, END}
    /\ raised \in Nodes \cup {NoNode}
    /\ Len(attempts) <= MaxExec
    /\ \A i \in 1..Len(steps) : steps[i] \in Nodes

(***************************************************************************)
(* Reading the history of a turn                                           *)
(***************************************************************************)
Ran(node) == \E i \in 1..Len(steps) : steps[i] = node
Count(node) == Cardinality({i \in 1..Len(steps) : steps[i] = node})
LastStep == IF steps = <<>> THEN NoNode ELSE steps[Len(steps)]
\* the step that follows the i-th completed step: the next completed step,
\* or the step the executor has selected to run next
After(i) == IF i < Len(steps) THEN steps[i + 1] ELSE pc
\* which execution attempt the i-th completed step is, when it is one
ExecIndex(i) == Cardinality({j \in 1..i : steps[j] = "query_execution"})
EnteredSummarization == pc = "summarization" \/ Ran("summarization")

C2_ConvergesAfterNAttempts ==
    LET N == Len(attempts)
    IN /\ (N >= 1 /\ attempts[N]) => EnteredSummarization
       /\ EnteredSummarization =>
             /\ N >= 1
             /\ attempts[N]
             /\ \A i \in 1..(N - 1) : ~attempts[i]
             /\ Count("query_execution") = N
             /\ Count("self_correction") = N - 1
       /\ pc = "summarization" => state.sql_error = NULL

C2_Witness ==
    /\ pc = "summarization"
    /\ Len(attempts) = 3
    /\ ~attempts[1] /\ ~attempts[2] /\ attempts[3]
    /\ state.sql_error = NULL

C4_NoDataShortCircuit ==
    LET query_result == GetSeq(state.query_result)
    IN /\ (pc \in {"plan_visualization", "figure_generation"}
           \/ Ran("plan_visualization") \/ Ran("figure_generation")) =>
             TruthySeq(query_result)
       /\ \A i \in 1..Len(steps) :
             (steps[i] = "summarization" /\ ~TruthySeq(query_result)) =>
                 /\ After(i) = "curate_memory"
                 /\ state.summary = "The query returned no data to summarize."
       /\ \A i \in 1..Len(steps) :
             (steps[i] = "summarization" /\ TruthySeq(query_result)) =>
                 After(i) = "plan_visualization"

C4_Witness ==
    /\ Ran("summarization")
    /\ state.query_result = <<>>
    /\ pc = END
    /\ ~Ran("plan_visualization")

(***************************************************************************)
(* C5                                                                      *)
(***************************************************************************)
\* the router responses that are a JSON object, with or without a route
RouteObjects == {"{\"route\": \"sql_query\"}", "{\"route\": \"general_conversation\"}",
                 "{\"route\": \"data_export\"}", "{\"intent\": \"sql_query\"}"}

\* C5: whatever route label the model returns to the router, recognized,
\* unrecognized or missing, the turn does not crash there: the router step
\* completes, and an unrecognized or missing label continues at
\* direct_response.
C5_EveryLabelRouted ==
    llm_seen.router \in RouteObjects =>
        /\ raised # "router"
        /\ steps # <<>>
        /\ steps[1] = "router"
        /\ After(1) = IF llm_seen.router = "{\"route\": \"sql_query\"}"
                      THEN "load_memory" ELSE "direct_response"

(***************************************************************************)
(* C6                                                                      *)
(***************************************************************************)
\* the structured responses that are unparsable or of the wrong shape
Malformed == {"{\"route\":", "[\"sql_query\"]", "{'charts':", "{\"charts\": \"kpi\"}"}

\* C6: a malformed structured model response in the router, in
\* visualization planning or in memory curation never aborts the turn: the
\* step completes with the degraded result (default route, empty plan,
\* empty fact list).
C6_MalformedNeverAborts ==
    /\ llm_seen.router \in Malformed =>
          /\ raised = NoNode
          /\ Ran("router")
          /\ state.next_node = "general_conversation"
    /\ llm_seen.plan \in Malformed =>
          /\ raised = NoNode
          /\ Ran("plan_visualization")
          /\ state.visualization_plan = NullSeq
    /\ llm_seen.curation \in Malformed =>
          /\ raised = NoNode
          /\ Ran("curate_memory")
          /\ state.facts_to_save = <<>>

(***************************************************************************)
(* C7                                                                      *)
(***************************************************************************)
\* the latest completed query_execution step
LastExecution ==
    CHOOSE i \in 1..Len(steps) :
        steps[i] = "query_execution" /\ ExecIndex(i) = Count("query_execution")

C8_OnlyReadOnlySent ==
    /\ \A sql_query \in db_sent : ReadOnly(sql_query)
    /\ db_writes = 0

(***************************************************************************)
(* C9                                                                      *)
(***************************************************************************)
IsStop(item) == item.finish_reason = "stop"

\* the shape of a finished stream of the streaming endpoint: one chunk
\* with finish_reason "stop", directly followed by the [DONE] marker as the
\* last item, and neither of the two before the end
StreamShape ==
    LET n == Len(sse)
    IN /\ (entry = "api" /\ callerPc = "responded") =>
             /\ n >= 2
             /\ sse[n] = DONE
             /\ IsStop(sse[n - 1])
             /\ \A i \in 1..n : IsStop(sse[i]) => i = n - 1
             /\ \A i \in 1..n : sse[i] = DONE => i = n
       /\ callerPc # "responded" =>
             \A i \in 1..n : ~IsStop(sse[i]) /\ sse[i] # DONE

\* C9: a response stream of the streaming endpoint that has run to its
\* end holds exactly one chunk with finish_reason "stop", directly followed
\* by the [DONE] marker as the last item, and that chunk carries the
\* explicit error message when a step raised and the summary of the final
\* State Record otherwise.
C9_OneStopThenDone ==
    /\ StreamShape
    /\ (entry = "api" /\ callerPc = "responded") =>
          sse[Len(sse) - 1].content =
             IF raised # NoNode
             THEN ErrorMessage
             ELSE [ResponseContent(state.summary, "none")
                      EXCEPT !.chart = sse[Len(sse) - 1].content.chart]

(***************************************************************************)
(* C10                                                                     *)
(***************************************************************************)
\* the caller has been given an explicit error and no summary
ErrorDelivered ==
    CASE entry = "api" ->
            /\ Len(sse) >= 2
            /\ sse[Len(sse) - 1] = create_sse_chunk(ErrorMessage, "stop")
            /\ \A i \in 1..Len(sse) : sse[i].content.status # "<text>"
      [] entry = "main" -> response.kind = "http_500"
      [] entry = "pipe" -> response.kind = "error_text"
      [] OTHER -> FALSE

\* C10: once a step has raised, no further step of the turn executes, the
\* failed step is not recorded as completed, the thread's latest
\* checkpoint is the state after the last completed step, and the caller
\* receives an explicit error instead of a summary.
C10_RaiseAbortsTurn ==
    [][raised' # NoNode =>
          /\ steps' = steps
          /\ state' = state
          /\ pc' = raised'
          /\ checkpoint' = checkpoint
          /\ checkpoint'[thread_id'] =
                [state |-> state', next |-> raised', nsteps |-> Len(steps')]
          /\ (LastStep # NoNode /\ entry = "api") =>
                \E i \in 1..Len(sse') :
                    /\ sse'[i].content.message = node_display_names[LastStep]
                    /\ \A j \in (i + 1)..Len(sse') :
                          sse'[j].content.status # "in_progress"
          /\ callerPc' \in {"except", "responded"}
          /\ callerPc' = "responded" => ErrorDelivered']_vars

C10_Witness ==
    /\ raised = "self_correction"
    /\ callerPc = "responded"
    /\ entry = "main"
    /\ checkpoint[thread_id].nsteps = 5

(***************************************************************************)
(* C11                                                                     *)
(***************************************************************************)
\* the running turn was invoked on the thread of the turn that was killed
ReinvokedAfterKill ==
    /\ parked.callerPc = "killed"
    /\ callerPc # "idle"
    /\ thread_id = parked.thread_id

\* C11: a turn that is invoked again with the thread id of a turn killed
\* after its K-th checkpoint continues at step K+1 from the checkpointed
\* State Record and does not execute steps 1..K again.
C11_ResumesAfterKill ==
    ReinvokedAfterKill =>
        /\ steps = <<>> => (pc = parked.pc /\ state = parked.state)
        /\ \A i \in 1..Len(steps) :
              i <= Len(parked.steps) => steps[i] # parked.steps[i]

(***************************************************************************)
(* C12                                                                     *)
(***************************************************************************)
TransientKeys == {"next_node", "generated_sql", "query_result", "sql_error",
                  "summary", "plotly_figure_json", "facts_to_save"}

NoTransient(s) ==
    \A k \in TransientKeys : s[k] = IF k \in StrKeys THEN ABSENT ELSE AbsentSeq

\* both handlers run a turn, on different threads
TwoThreads ==
    /\ callerPc # "idle"
    /\ parked.callerPc # "idle"
    /\ thread_id # parked.thread_id

\* the State Record of handler h holds what the caller of h supplied and
\* what the steps of h computed from the answers given to h
OwnRecord(h) ==
    LET ran(node) == \E i \in 1..Len(h.steps) : h.steps[i] = node
        last == h.steps[Len(h.steps)]
    IN /\ h.state.question = Question
       /\ h.state.user_id = CASE h.entry = "api" -> "open-webui-user"
                              [] h.entry = "pipe" -> h.thread_id
                              [] OTHER -> h.state.user_id
       /\ h.entry = "main" => h.thread_id = UserThread(h.state.user_id)
       /\ IF ran("router")
          THEN h.state.next_node =
                  DictGet(json_loads(h.llm_seen.router).route, "general_conversation")
          ELSE NoTransient(h.state)
       /\ ran("query_execution") =>
             /\ h.state.query_result = h.last_exec.query_result
             /\ last = "query_execution" => h.state.sql_error = h.last_exec.sql_error
       /\ ~ran("query_execution") =>
             h.state.query_result = AbsentSeq /\ h.state.sql_error = ABSENT
       /\ ~ran("query_generation") => h.state.generated_sql = AbsentSeq
       /\ ~ran("figure_generation") => h.state.plotly_figure_json = AbsentSeq
       /\ ~(ran("summarization") \/ ran("direct_response")) =>
             h.state.summary = ABSENT
       /\ IF ran("curate_memory")
          THEN h.state.facts_to_save =
                  curate_memory_node(h.state, h.llm_seen.curation).update.facts_to_save
          ELSE h.state.facts_to_save = AbsentSeq
       /\ h.callerPc \in {"streaming", "responded"} =>
             checkpoint[h.thread_id] =
                [state |-> h.state, next |-> h.pc, nsteps |-> Len(h.steps)]

C13_RecordNotShared ==
    (callerPc = "streaming" /\ steps = <<>>) => NoTransient(state)

(***************************************************************************)
(* C14                                                                     *)
(***************************************************************************)
\* C14: within a turn one step runs at a time, and when step N+1 runs the
\* update of step N has been merged into the State Record and the
\* checkpoint of step N has been saved.
C14_StepsInSequence ==
    [][(Len(steps') = Len(steps) + 1 /\ steps # <<>>) =>
          /\ steps' = Append(steps, pc)
          /\ checkpoint[thread_id] =
                [state |-> state, next |-> pc, nsteps |-> Len(steps)]
          /\ persisted]_vars

(***************************************************************************)
(* C15                                                                     *)
(***************************************************************************)
\* the keys of the mapping each node function returns
ReturnedKeys ==
    [router |-> {"next_node"},
     direct_response |-> {"summary"},
     load_memory |-> {"long_term_memory"},
     schema_linking |-> {"retrieved_schema", "few_shot_examples"},
     query_generation |-> {"generated_sql"},
     query_execution |-> {"query_result", "sql_error"},
     self_correction |-> {"generated_sql", "sql_error"},
     summarization |-> {"summary"},
     plan_visualization |-> {"visualization_plan"},
     figure_generation |-> {"plotly_figure_json"},
     curate_memory |-> {"facts_to_save"},
     save_memory |-> {}]

\* what the caller of the running turn supplied
Supplied ==
    /\ state.question = Question
    /\ state.user_id = CASE entry = "api" -> "open-webui-user"
                         [] entry = "pipe" -> thread_id
                         [] OTHER -> CHOOSE user \in {"default-user", "alice", NULL, QuotingUser} :
                                        UserThread(user) = thread_id
    /\ state.chat_history = IF entry = "api"
                            THEN <<"human: What were total sales last month?">>
                            ELSE AbsentSeq

\* C15: a step changes only the State Record keys of the mapping it
\* returns, and question, chat_history and user_id keep the values the
\* caller supplied up to the terminal step.
C15_FrameOfAStep ==
    /\ [](callerPc # "idle" => Supplied)
    /\ [][Len(steps') = Len(steps) + 1 =>
            \A k \in DOMAIN state :
                state'[k] # state[k] => k \in ReturnedKeys[pc]]_vars

C15_Witness ==
    /\ pc = END
    /\ LastStep = "save_memory"
    /\ Ran("figure_generation")
    /\ Ran("self_correction")
    /\ entry = "api"
    /\ Supplied

(***************************************************************************)
(* C16                                                                     *)
(***************************************************************************)
\* the keys each node function subscripts in the State Record
RequiredKeys ==
    [router |-> {"question"},
     direct_response |-> {"question"},
     load_memory |-> {"question"},
     schema_linking |-> {"question"},
     query_generation |-> {"question", "retrieved_schema", "few_shot_examples"},
     query_execution |-> {},
     self_correction |-> {"question", "generated_sql", "sql_error",
                          "retrieved_schema"},
     summarization |-> {"question"},
     plan_visualization |-> {"question"},
     figure_generation |-> {},
     curate_memory |-> {},
     save_memory |-> {}]

SuppliedKeys == {"question", "user_id"}

Present(k) == state[k] # (IF k \in StrKeys THEN ABSENT ELSE AbsentSeq)

WrittenEarlier(k) == \E i \in 1..Len(steps) : k \in ReturnedKeys[steps[i]]

\* C16: on every path, each State Record key the step at the cursor
\* requires is set and was supplied by the caller or written by a step that
\* ran earlier in the turn; next_node is written by router before the
\* router edge reads it.
C16_RequiredKeysProduced ==
    /\ (callerPc = "streaming" /\ pc \in Nodes) =>
          \A k \in RequiredKeys[pc] :
              Present(k) /\ (k \in SuppliedKeys \/ WrittenEarlier(k))
    /\ Ran("router") => (Present("next_node") /\ steps[1] = "router")

C16_Witness ==
    /\ callerPc = "streaming"
    /\ pc = "self_correction"
    /\ Count("self_correction") = 1
    /\ entry = "main"

(***************************************************************************)
(* C17                                                                     *)
(***************************************************************************)
\* the part of the graph behind memory: a run that ends has executed
\* curate_memory once and then save_memory once as its last two steps, only
\* save_memory is followed by the end, and every other completed step is
\* followed by a node
EndsThroughMemory ==
    /\ pc = END =>
          /\ Len(steps) >= 2
          /\ steps[Len(steps)] = "save_memory"
          /\ steps[Len(steps) - 1] = "curate_memory"
          /\ Count("curate_memory") = 1
          /\ Count("save_memory") = 1
    /\ \A i \in 1..Len(steps) :
          IF steps[i] = "save_memory" THEN After(i) = END ELSE After(i) \in Nodes
    /\ \A node \in Nodes \ {"router", "save_memory"} : NextNode(node, state) \in Nodes

\* C17: a turn that ends without error has executed curate_memory once and
\* then save_memory once as its last two steps; save_memory is the only
\* step after which a turn ends, and every other step has a successor in
\* every reachable state: no step that returned is left without a next
\* node.
C17_NoDeadEnd ==
    /\ EndsThroughMemory
    /\ raised = "router" => router_node(state, llm_seen.router).raises

(***************************************************************************)
(* C18                                                                     *)
(***************************************************************************)
\* the nodes followed by a conditional edge
Selecting == {"router", "query_execution", "summarization"}

\* handler h has just completed a step that a conditional edge follows
AtSelection(h) ==
    /\ h.callerPc = "streaming"
    /\ h.steps # <<>>
    /\ h.steps[Len(h.steps)] \in Selecting

CompletedAndAnswered == callerPc = "responded" /\ pc = END /\ raised = NoNode

\* C19: the final response of a turn that completed without error carries
\* the summary of the final State Record, not a default placeholder, and
\* figures are attached only when plotly_figure_json is non-empty.
C19_ResponseCarriesSummary ==
    CompletedAndAnswered =>
        CASE entry = "api" ->
                /\ sse[Len(sse) - 1].content.message = state.summary
                /\ sse[Len(sse) - 1].content.chart # "none" =>
                      TruthySeq(GetSeq(state.plotly_figure_json))
          [] entry = "main" ->
                /\ response.kind = "completion"
                /\ response.content = state.summary
                /\ response.images > 0 => TruthySeq(GetSeq(state.plotly_figure_json))
          [] OTHER ->
                /\ response.kind = "completion"
                /\ response.content = state.summary
                /\ response.images > 0 => TruthySeq(GetSeq(state.plotly_figure_json))

\* the same for the non-streaming endpoint alone
MainResponseCarriesSummary ==
    (CompletedAndAnswered /\ entry = "main") =>
        /\ response.kind = "completion"
        /\ response.content = state.summary
        /\ response.images > 0 => TruthySeq(GetSeq(state.plotly_figure_json))

(***************************************************************************)
(* C20                                                                     *)
(***************************************************************************)
\* the attempts of one invocation: never more than stop_after_attempt, and
\* the error is re-raised only after the attempt numbered stop_after_attempt
RetryCapped ==
    /\ llm_seen.attempt_number <= stop_after_attempt
    /\ llm_seen.reraised => llm_seen.attempt_number = stop_after_attempt
    /\ llm_seen.invoked_by # NotSeen => llm_seen.attempt_number >= 1

\* the steps that let the re-raised error of the invocation through
Uncaught == {"router", "direct_response", "query_generation", "self_correction"}

\* where the invocation is made inside a try block, the error re-raised
\* after the last attempt is caught and the turn goes on
CaughtByTheStep ==
    (llm_seen.reraised /\ llm_seen.invoked_by \notin Uncaught) => raised = NoNode

\* C20: one model invocation makes at most 4 attempts and stops at the
\* first that succeeds; after the 4th consecutive failure the error is
\* re-raised to the calling step, and that step fails the turn
C20_ExhaustionFailsTurn ==
    /\ RetryCapped
    /\ llm_seen.reraised => raised = llm_seen.invoked_by

(***************************************************************************)
(* C21                                                                     *)
(***************************************************************************)
\* the inserts submitted to the vector store by the step being taken
Submitted == SubSeq(memory_store', Len(memory_store) + 1, Len(memory_store'))

C22_NoUserNoSearch ==
    [][(parked' = parked /\ callerPc = "streaming" /\ pc = "load_memory"
            /\ ~Truthy(Get(state.user_id))
            /\ (steps' # steps \/ raised' # raised)) =>
          /\ state'.long_term_memory =
                <<"Long-term memory is disabled for this session.">>
          /\ llm_seen'.filter_expr = llm_seen.filter_expr
          /\ raised' = NoNode
          /\ steps' = Append(steps, "load_memory")
          /\ pc' = "schema_linking"]_vars

\* a turn without a user id that went through load_memory to schema_linking
C22_Witness ==
    /\ ~Truthy(Get(state.user_id))
    /\ LastStep = "load_memory"
    /\ pc = "schema_linking"
    /\ llm_seen.filter_expr = <<>>
    /\ state.long_term_memory = <<"Long-term memory is disabled for this session.">>

(***************************************************************************)
(* C27                                                                     *)
(***************************************************************************)
\* the facts of the context load_memory returned
Recalled(context) ==
    IF context[1] = "Here are some potentially relevant facts from past conversations:"
    THEN Tail(context) ELSE <<>>

\* the facts inserted under a user id, in the order of their insertion
FactsOf(user_id) ==
    LET rows == SelectSeq(memory_store, LAMBDA w : w.ok /\ w.user_id = user_id)
    IN [i \in 1..Len(rows) |-> rows[i].fact]

\* a load_memory step of a turn that has a user id
LoadsMemory ==
    /\ parked' = parked
    /\ callerPc = "streaming"
    /\ pc = "load_memory"
    /\ steps' # steps
    /\ Truthy(Get(state.user_id))

\* what holds of user ids without a quote character: the facts recalled
\* are facts inserted under the same user id
PlainUsersPartitioned ==
    [][(LoadsMemory /\ state.user_id # QuotingUser) =>
          \E n \in 0..Len(FactsOf(state.user_id)) :
              Recalled(state'.long_term_memory) = SubSeq(FactsOf(state.user_id), 1, n)]_vars

\* C27: long-term memory is partitioned by user_id: whatever the
\* interleaving of turns, the facts load_memory returns in a turn are facts
\* saved under that turn's user_id, never under a different one
C27_MemoryPartitioned ==
    [][LoadsMemory =>
          \E n \in 0..Len(FactsOf(state.user_id)) :
              Recalled(state'.long_term_memory) = SubSeq(FactsOf(state.user_id), 1, n)]_vars

(***************************************************************************)
(* C23                                                                     *)
(***************************************************************************)
\* a completed turn that was routed to sql_query and whose first execution
\* returned rows
SqlTurnCompleted ==
    /\ pc = END
    /\ raised = NoNode
    /\ state.next_node = "sql_query"
    /\ attempts = <<TRUE>>
    /\ TruthySeq(GetSeq(state.query_result))

\* no step but query_generation and self_correction changes generated_sql,
\* and no step but summarization and direct_response changes summary
EmittedValuesKept ==
    [][(parked' = parked /\ steps' # steps /\ steps # <<>>) =>
          /\ pc \notin {"query_generation", "self_correction"} =>
                state'.generated_sql = state.generated_sql
          /\ pc \notin {"summarization", "direct_response"} =>
                state'.summary = state.summary]_vars

\* the fact list of the answer the memory-curation invocation returned
CuratedFacts == json_loads(llm_seen.curation).facts_to_save

\* what holds where the turn was given a chat history
CuratedWhenHistory ==
    (SqlTurnCompleted /\ TruthySeq(GetSeq(state.chat_history))) =>
        /\ llm_seen.curation # NotSeen
        /\ CuratedFacts # AbsentSeq => state.facts_to_save = CuratedFacts

\* C23: a turn routed to sql_query whose first execution returns rows ends
\* with generated_sql as query_generation emitted it, the summary that
\* summarization emitted, and facts_to_save equal to the fact list the
\* memory-curation model call returned
C23_FinalStateOfSqlTurn ==
    /\ EmittedValuesKept
    /\ [](SqlTurnCompleted =>
            /\ Ran("query_generation") /\ Ran("summarization")
            /\ ~Ran("self_correction")
            /\ llm_seen.curation # NotSeen
            /\ CuratedFacts # AbsentSeq => state.facts_to_save = CuratedFacts)

(***************************************************************************)
(* C24                                                                     *)
(***************************************************************************)
\* what a syntax validator answers: a text with a string literal that is
\* never closed is not valid SQL
SyntaxValid(sql) == \A i \in 1..Len(sql) : sql[i] # "'Alice;"

\* the query that the last query_execution step handed to execute_sql_query
Executed == GetSeq(state.generated_sql)

\* the first check: a text that does not start with SELECT is answered
\* with the security error and never reaches the database
NonSelectRejectedFirst ==
    (LastStep = "query_execution" /\ TruthySeq(Executed) /\ Strip(Executed) # <<>>
        /\ ~StartsWithSelect(Strip(Executed))) =>
        /\ last_exec.sql_error = "Security Error: Only SELECT queries are allowed."
        /\ ~last_exec.sent
        /\ Executed \notin db_sent

\* C24: execute_sql_query rejects a non-SELECT query with the security
\* error first, and a SELECT query with invalid syntax is answered with
\* SQL Validation Error: Invalid SQL syntax and never executed
C24_ChecksInOrder ==
    /\ NonSelectRejectedFirst
    /\ (LastStep = "query_execution" /\ TruthySeq(Executed)
            /\ StartsWithSelect(Strip(Executed)) /\ ~SyntaxValid(Executed)) =>
          /\ last_exec.sql_error = "SQL Validation Error: Invalid SQL syntax"
          /\ ~last_exec.sent
          /\ Executed \notin db_sent

(***************************************************************************)
(* C25                                                                     *)
(***************************************************************************)
\* the steps of the sql path up to the first execution
SqlPrefix ==
    <<"router", "load_memory", "schema_linking", "query_generation", "query_execution">>

\* C25: router is the first step of every turn and runs once; a turn
\* routed to general_conversation runs only router, direct_response,
\* curate_memory and save_memory; a turn routed to sql_query runs
\* load_memory, schema_linking and query_generation once each and in that
\* order before the first query_execution, and never direct_response
C25_PathsOfATurn ==
    /\ (callerPc = "streaming" /\ steps = <<>>) => pc = "router"
    /\ steps # <<>> =>
          /\ steps[1] = "router"
          /\ Count("router") = 1
          /\ state.next_node = "general_conversation" =>
                \A i \in 1..Len(steps) :
                    steps[i] \in {"router", "direct_response", "curate_memory",
                                  "save_memory"}
          /\ state.next_node = "sql_query" =>
                /\ ~Ran("direct_response")
                /\ \A i \in 1..Len(steps) : i <= Len(SqlPrefix) => steps[i] = SqlPrefix[i]
                /\ Count("load_memory") <= 1
                /\ Count("schema_linking") <= 1
                /\ Count("query_generation") <= 1

\* a completed sql turn that executed twice and drew figures
C25_Witness ==
    /\ pc = END
    /\ state.next_node = "sql_query"
    /\ Count("query_execution") = 2
    /\ Count("query_generation") = 1
    /\ Ran("figure_generation")

(***************************************************************************)
(* C26                                                                     *)
(***************************************************************************)
InProgress(item) == item.content.status = "in_progress"

\* C26: the streaming endpoint emits one in_progress status chunk for each
\* completed step, in the order the steps completed, and all of them come
\* before the chunk that carries the final content
C26_OneStatusPerStep ==
    entry = "api" =>
        /\ Len(sse) >= Len(steps)
        /\ \A i \in 1..Len(steps) :
              sse[i] = create_sse_chunk(StatusUpdate(node_display_names[steps[i]]), NULL)
        /\ \A i \in 1..Len(sse) : InProgress(sse[i]) <=> i <= Len(steps)
        /\ \A i \in 1..Len(sse) : IsStop(sse[i]) => i = Len(steps) + 1

\* a finished stream of a sql turn that executed twice and drew figures
C26_Witness ==
    /\ entry = "api"
    /\ callerPc = "responded"
    /\ raised = NoNode
    /\ Count("query_execution") = 2
    /\ Ran("figure_generation")
    /\ TruthySeq(GetSeq(state.plotly_figure_json))
    /\ Len(sse) = Len(steps) + 2

(***************************************************************************)
(* C28                                                                     *)
(***************************************************************************)
\* a key of the State Record that is missing or None
IsNull(v) == v = NULL \/ v = ABSENT
IsNullSeq(v) == v = NullSeq \/ v = AbsentSeq

\* C28: at every step boundary query_result and sql_error are not both
\* non-null; query_execution leaves exactly one of them null when it fails
\* and sql_error null when it succeeds, and after self_correction both are
\* null until the next query_execution completes
C28_ResultXorError ==
    /\ IsNullSeq(state.query_result) \/ IsNull(state.sql_error)
    /\ LastStep = "query_execution" =>
          /\ state.query_result = last_exec.query_result
          /\ state.sql_error = last_exec.sql_error
          /\ last_exec.kind = "ok" =>
                state.sql_error = NULL /\ state.query_result # NullSeq
          /\ last_exec.kind # "ok" =>
                state.sql_error # NULL /\ state.query_result = NullSeq
    /\ LastStep = "self_correction" =>
          state.query_result = NullSeq /\ state.sql_error = NULL

\* a failed execution was followed by self_correction, and the second
\* execution returned rows
C28_Witness ==
    /\ steps # <<>>
    /\ LastStep = "query_execution"
    /\ Ran("self_correction")
    /\ attempts = <<FALSE, TRUE>>
    /\ TruthySeq(state.query_result)
    /\ state.sql_error = NULL

RECURSIVE FiguresOfSome(_, _)
FiguresOfSome(figures, charts) ==
    IF figures = <<>> THEN TRUE
    ELSE IF charts = <<>> THEN FALSE
    ELSE \/ /\ Head(figures) = FigureJson(Head(charts))
            /\ FiguresOfSome(Tail(figures), Tail(charts))
         \/ FiguresOfSome(figures, Tail(charts))

\* C30: figure_generation never aborts the turn: plotly_figure_json holds
\* the serialized figures of the planned charts that rendered, in plan
\* order, is the empty list when the plan is missing or has no charts or
\* query_result is empty, and the next step is curate_memory
C30_FiguresOfRenderedCharts ==
    [][(parked' = parked /\ callerPc = "streaming" /\ pc = "figure_generation"
            /\ (steps' # steps \/ raised' # raised)) =>
          LET plan == GetSeq(state.visualization_plan)
              figures == state'.plotly_figure_json
          IN /\ raised' = NoNode
             /\ steps' = Append(steps, "figure_generation")
             /\ pc' = "curate_memory"
             /\ (~TruthySeq(plan) \/ ~TruthySeq(GetSeq(state.query_result))) =>
                    figures = <<>>
             /\ TruthySeq(plan) =>
                    Len(figures) <= Len(plan) /\ FiguresOfSome(figures, plan)]_vars

\* of two planned charts the first failed to render and the second is held
C30_Witness ==
    /\ LastStep = "figure_generation"
    /\ pc = "curate_memory"
    /\ raised = NoNode
    /\ state.visualization_plan = <<"kpi", "bar">>
    /\ state.plotly_figure_json = <<FigureJson("bar")>>

====
